---- MODULE Spec2Model ----
(***************************************************************************)
(* Model of the activeledger transaction builder (active_tx):              *)
(* TransactionBody, Signees and TransactionBuilder, with the external      *)
(* signer as a deterministic function of key and message that may fail,    *)
(* and PacketValue, PacketBuilder and PacketData. Spec is a transaction    *)
(* builder under any sequence of calls, SpecPacket a packet builder made   *)
(* from any value and then built and read.                                 *)
(***************************************************************************)
EXTENDS Integers, Sequences, FiniteSets, TLC

VARIABLES packet_data, tx_data, packet, tx, sigs, last, prev, ghost, steps,
          packet_builder, packet_ok, plast,
          registry, snapshot, log, onboarded,
          tbody, blast

\* the TransactionBuilder and its history
txvars == <<packet_data, tx_data, packet, tx, sigs, last, prev, ghost, steps>>
\* the PacketBuilder, the PacketData its last successful build returned and
\* the last packet call
pvars == <<packet_builder, packet_ok, plast>>

\* a Signees registry, the Vec its last get returned (with the number of
\* calls made before it), the add and add_selfsign calls made on it, and the
\* last onboard_tx or generate_onboard_tx call with its result
svars == <<registry, snapshot, log, onboarded>>

\* a TransactionBody on its own and the last call made on it
bvars == <<tbody, blast>>

vars == <<txvars, pvars, svars, bvars>>

(* ------------------------------ bounds -------------------------------- *)

\* number of builder calls in one behaviour
MaxSteps == 4
\* longest signees registry handed to build or sign
MaxSignees == 2

(* --------------------------- input domains ---------------------------- *)

NamespaceVals == {"ns", "ns2"}
ContractVals == {"c", "c2"}
EntryVals == {"e", "e2"}
TerritorialityVals == {"terry", "terry2"}
JsonVals == {"j1", "j2"}
StreamIds == {"s1", "s2"}

(* ------------------------------ options ------------------------------- *)

None == << >>
Some(v) == << v >>
Unwrap(o) == o[1]

EmptyMap == [x \in {} |-> x]
\* an insert that keeps the value a key already has
Insert_keep(m, k, v) == IF k \in DOMAIN m THEN m ELSE (k :> v) @@ m

\* HashMap::insert / json[key] = value : the new value replaces an old one
Insert(m, k, v) == (k :> v) @@ m

(* ------------------------------- errors ------------------------------- *)

\* enum TxBuilderError: the variant and the code it carries
TxBodyError(code) == [kind |-> "TxBodyError", code |-> code]
PacketError(code) == [kind |-> "PacketError", code |-> code]
TxBuildError(code) == [kind |-> "TxBuildError", code |-> code]
KeyError(code) == [kind |-> "KeyError", code |-> code]

(* -------------------------------- keys -------------------------------- *)

\* enum Key { Rsa(RSA), Ec(EllipticCurve) }, each key carrying its name
Key == { [name |-> "k1", kind |-> "Ec"], [name |-> "k2", kind |-> "Rsa"] }

\* struct Signee { streamid, key }
Signee == [streamid : StreamIds, key : Key]

\* Signees::new followed by any number of Signees::add calls: keys.push keeps
\* call order and every duplicate
Signees == UNION { [1..n -> Signee] : n \in 0..MaxSignees }

Signees_new == << >>

\* an add that replaces the signee a stream id already has
Signees_add_unique(signees, key, streamid) ==
    IF \E i \in 1..Len(signees) : signees[i].streamid = streamid
    THEN [i \in 1..Len(signees) |->
            IF signees[i].streamid = streamid THEN [streamid |-> streamid, key |-> key]
            ELSE signees[i]]
    ELSE Append(signees, [streamid |-> streamid, key |-> key])

\* Signees::add: self.keys.push(signee)
Signees_add(signees, key, streamid) ==
    Append(signees, [streamid |-> streamid, key |-> key])

\* an add_selfsign that files every key under one stream id
Signees_add_selfsign_fixed(signees, key) ==
    Append(signees, [streamid |-> "s1", key |-> key])

\* Signees::add_selfsign: the stream id is the key's name
Signees_add_selfsign(signees, key) ==
    LET name == CASE key.kind = "Ec" -> key.name
                  [] key.kind = "Rsa" -> key.name
    IN  Append(signees, [streamid |-> name, key |-> key])

\* a get that returns the first signee alone
Signees_get_first(signees) == SubSeq(signees, 1, IF Len(signees) > 0 THEN 1 ELSE 0)

\* Signees::get
Signees_get(signees) == signees

(* --------------------------- serialization ---------------------------- *)

\* serde_json object keys in map order
TxKeyOrder == << "$contract", "$entry", "$i", "$namespace", "$o", "$r" >>
EnvKeyOrder == << "$selfsign", "$sigs", "$territoriality", "$tx" >>
StreamIdOrder == << "k1", "k2", "s1", "s2" >>

\* Value::to_string of an object: its entries as text, in key order
to_string(json, order) ==
    LET ks == SelectSeq(order, LAMBDA k : k \in DOMAIN json)
    IN  [i \in 1..Len(ks) |-> << ks[i], json[ks[i]] >>]

\* Value::to_string of the envelope, nested objects serialized in place
env_to_string(env) ==
    LET flat == [k \in DOMAIN env |->
                    CASE k = "$tx" -> to_string(env[k], TxKeyOrder)
                      [] k = "$sigs" -> to_string(env[k], StreamIdOrder)
                      [] OTHER -> env[k]]
    IN  to_string(flat, EnvKeyOrder)

(* -------------------------- TransactionBody --------------------------- *)

TransactionBody_new(contract, namespace, input) ==
    [entry |-> None, contract |-> contract, namespace |-> namespace,
     input |-> input, output |-> None, readonly |-> None, json |-> None]

\* an add that stores the output as readonly and the readonly as output
TransactionBody_add_crossed(body, key, data) ==
    CASE key = "entry" -> [body EXCEPT !.entry = Some(data)]
      [] key = "output" -> [body EXCEPT !.readonly = Some(data)]
      [] key = "readonly" -> [body EXCEPT !.output = Some(data)]

\* any other key is unreachable!()
TransactionBody_add(body, key, data) ==
    CASE key = "entry" -> [body EXCEPT !.entry = Some(data)]
      [] key = "output" -> [body EXCEPT !.output = Some(data)]
      [] key = "readonly" -> [body EXCEPT !.readonly = Some(data)]

\* the body with $contract and $namespace taken from each other's field
TransactionBody_json_swapped(body) ==
    LET j1 == Insert(EmptyMap, "$contract", body.namespace)
        j2 == Insert(j1, "$namespace", body.contract)
        j3 == Insert(j2, "$i", body.input)
        j4 == IF body.entry # None THEN Insert(j3, "$entry", Unwrap(body.entry)) ELSE j3
        j5 == IF body.output # None THEN Insert(j4, "$o", Unwrap(body.output)) ELSE j4
        j6 == IF body.readonly # None THEN Insert(j5, "$r", Unwrap(body.readonly)) ELSE j5
    IN  j6

\* the JSON object TransactionBody::build assembles
TransactionBody_json(body) ==
    LET j0 == EmptyMap
        j1 == Insert(j0, "$contract", body.contract)
        j2 == Insert(j1, "$namespace", body.namespace)
        j3 == Insert(j2, "$i", body.input)
        j4 == IF body.entry # None THEN Insert(j3, "$entry", Unwrap(body.entry)) ELSE j3
        j5 == IF body.output # None THEN Insert(j4, "$o", Unwrap(body.output)) ELSE j4
        j6 == IF body.readonly # None THEN Insert(j5, "$r", Unwrap(body.readonly)) ELSE j5
    IN  j6

\* TransactionBody::build: the body with its JSON cached
TransactionBody_build(body) == [body EXCEPT !.json = Some(TransactionBody_json(body))]

\* TransactionBody::get: Ok(json) or the body error
TransactionBody_get(body) ==
    IF body.json # None THEN [err |-> None, json |-> body.json]
    ELSE [err |-> Some(TxBodyError(0)), json |-> None]

(* ----------------------------- PacketData ----------------------------- *)

\* a PacketData as the builder sees it: its JSON form, set once built
PacketDatas == { [json |-> None] } \cup { [json |-> Some(j)] : j \in JsonVals }

\* PacketData::get
PacketData_get(p) ==
    IF p.json # None THEN [err |-> None, json |-> p.json]
    ELSE [err |-> Some(PacketError(3001)), json |-> None]

(* ---------------------------- PacketValue ----------------------------- *)

\* most nodes (strings, arrays and objects) in one value handed to a
\* PacketBuilder
MaxNodes == 4

StringVals == {"a", "b"}
\* the keys an object may have, in map order
ObjectKeys == << "x", "y" >>

\* enum PacketValue { String, Array, Object }
PacketValue_String(s) == [kind |-> "String", val |-> s]
PacketValue_Array(a) == [kind |-> "Array", val |-> a]
PacketValue_Object(m) == [kind |-> "Object", val |-> m]

\* serde_json::Value, tagged apart from PacketValue
JString(s) == [json |-> "string", val |-> s]
JArray(a) == [json |-> "array", val |-> a]
JObject(m) == [json |-> "object", val |-> m]
JBool(b) == [json |-> "bool", val |-> b]

\* the PacketValues of exactly n nodes: PacketLists(n) the sequences of
\* values with n nodes in all, PacketMaps(i, n) the maps over the keys from
\* ObjectKeys[i] on
RECURSIVE PacketValues(_), PacketLists(_), PacketMaps(_, _)
PacketValues(n) ==
    (IF n = 1 THEN { PacketValue_String(s) : s \in StringVals } ELSE {})
    \cup { PacketValue_Array(l) : l \in PacketLists(n - 1) }
    \cup { PacketValue_Object(m) : m \in PacketMaps(1, n - 1) }
PacketLists(n) ==
    IF n = 0 THEN { << >> }
    ELSE UNION { { << v >> \o l : v \in PacketValues(k), l \in PacketLists(n - k) } :
                 k \in 1..n }
PacketMaps(i, n) ==
    IF i > Len(ObjectKeys) THEN (IF n = 0 THEN { EmptyMap } ELSE {})
    ELSE PacketMaps(i + 1, n)
         \cup UNION { { (ObjectKeys[i] :> v) @@ m :
                          v \in PacketValues(k), m \in PacketMaps(i + 1, n - k) } :
                      k \in 1..n }

\* the JSON values of exactly n nodes, booleans among them
RECURSIVE JsonValues(_), JsonLists(_), JsonMaps(_, _)
JsonValues(n) ==
    (IF n = 1 THEN { JString(s) : s \in StringVals } \cup { JBool(b) : b \in BOOLEAN }
     ELSE {})
    \cup { JArray(l) : l \in JsonLists(n - 1) }
    \cup { JObject(m) : m \in JsonMaps(1, n - 1) }
JsonLists(n) ==
    IF n = 0 THEN { << >> }
    ELSE UNION { { << v >> \o l : v \in JsonValues(k), l \in JsonLists(n - k) } :
                 k \in 1..n }
JsonMaps(i, n) ==
    IF i > Len(ObjectKeys) THEN (IF n = 0 THEN { EmptyMap } ELSE {})
    ELSE JsonMaps(i + 1, n)
         \cup UNION { { (ObjectKeys[i] :> v) @@ m :
                          v \in JsonValues(k), m \in JsonMaps(i + 1, n - k) } :
                      k \in 1..n }

BuildError(code) == [kind |-> "BuildError", code |-> code]
JsonError(code) == [kind |-> "JsonError", code |-> code]

(* --------------------------- PacketBuilder ---------------------------- *)

\* the keys of JSON objects in map order
JsonKeyOrder == << "k1", "k2", "publicKey", "type", "x", "y" >>

\* Value::to_string as the text's tokens: an object's entries in key order,
\* an array's elements in their order
RECURSIVE Value_to_string(_), Value_join(_, _)
Value_to_string(j) ==
    LET Tok(t, x) == << [tok |-> t, text |-> x] >>
    IN  CASE j.json = "string" -> Tok("string", j.val)
          [] j.json = "bool" -> Tok("literal", IF j.val THEN "true" ELSE "false")
          [] j.json = "array" ->
                Tok("open", "[") \o Value_join(j.val, 1) \o Tok("close", "]")
          [] j.json = "object" ->
                LET ks == SelectSeq(JsonKeyOrder, LAMBDA k : k \in DOMAIN j.val)
                    entries == [i \in 1..Len(ks) |-> [key |-> ks[i], value |-> j.val[ks[i]]]]
                IN  Tok("open", "{") \o Value_join(entries, 1) \o Tok("close", "}")
\* the elements of an array, or the entries of an object, from the i-th on
Value_join(items, i) ==
    IF i > Len(items) THEN << >>
    ELSE LET item == items[i]
             text == IF "key" \in DOMAIN item
                     THEN << [tok |-> "key", text |-> item.key] >>
                          \o Value_to_string(item.value)
                     ELSE Value_to_string(item)
         IN  text \o (IF i < Len(items) THEN << [tok |-> "comma", text |-> ","] >> ELSE << >>)
                  \o Value_join(items, i + 1)

RECURSIVE array_tojson(_), object_tojson(_)

\* a match that converts strings alone
elem_tojson_strings(value) ==
    CASE value.kind = "String" -> [err |-> None, json |-> Some(JString(value.val))]
      [] value.kind = "Object" -> [err |-> Some(JsonError(2001)), json |-> None]
      [] value.kind = "Array" -> [err |-> Some(JsonError(2000)), json |-> None]

\* the match on one element in array_tojson and to_json: errors pass through
elem_tojson(value) ==
    CASE value.kind = "String" -> [err |-> None, json |-> Some(JString(value.val))]
      [] value.kind = "Object" -> object_tojson(value.val)
      [] value.kind = "Array" -> array_tojson(value)

\* the match on one value in object_tojson: a nested object's error is 2001
value_tojson(value) ==
    CASE value.kind = "String" -> [err |-> None, json |-> Some(JString(value.val))]
      [] value.kind = "Object" ->
            LET r == object_tojson(value.val)
            IN  IF r.err # None THEN [err |-> Some(JsonError(2001)), json |-> None] ELSE r
      [] value.kind = "Array" -> array_tojson(value)

\* an array whose elements come out in reverse
array_tojson_reversed(array) ==
    IF array.kind # "Array" THEN [err |-> Some(JsonError(2000)), json |-> None]
    ELSE LET n == Len(array.val)
             rs == [i \in 1..n |-> elem_tojson(array.val[n + 1 - i])]
             bad == { i \in 1..n : rs[i].err # None }
         IN  IF bad # {}
             THEN [err |-> rs[CHOOSE i \in bad : \A j \in bad : i <= j].err, json |-> None]
             ELSE [err |-> None, json |-> Some(JArray([i \in 1..n |-> Unwrap(rs[i].json)]))]

\* PacketBuilder::array_tojson: holder.push of every element in order, the
\* first error leaving the loop
array_tojson(array) ==
    IF array.kind # "Array" THEN [err |-> Some(JsonError(2000)), json |-> None]
    ELSE LET n == Len(array.val)
             rs == [i \in 1..n |-> elem_tojson(array.val[i])]
             bad == { i \in 1..n : rs[i].err # None }
         IN  IF bad # {}
             THEN [err |-> rs[CHOOSE i \in bad : \A j \in bad : i <= j].err, json |-> None]
             ELSE [err |-> None, json |-> Some(JArray([i \in 1..n |-> Unwrap(rs[i].json)]))]

\* PacketBuilder::object_tojson: json[key] = data for every entry of the map
object_tojson(map) ==
    LET rs == [k \in DOMAIN map |-> value_tojson(map[k])]
        bad == { k \in DOMAIN map : rs[k].err # None }
    IN  IF bad # {} THEN [err |-> rs[CHOOSE k \in bad : TRUE].err, json |-> None]
        ELSE [err |-> None, json |-> Some(JObject([k \in DOMAIN map |-> Unwrap(rs[k].json)]))]

\* PacketBuilder::to_json: the entries of an Object; any other value leaves
\* json!({}) as it was made
to_json(map) ==
    IF map.kind = "Object"
    THEN LET rs == [k \in DOMAIN map.val |-> elem_tojson(map.val[k])]
             bad == { k \in DOMAIN map.val : rs[k].err # None }
         IN  IF bad # {} THEN [err |-> rs[CHOOSE k \in bad : TRUE].err, json |-> None]
             ELSE [err |-> None,
                   json |-> Some(JObject([k \in DOMAIN map.val |-> Unwrap(rs[k].json)]))]
    ELSE [err |-> None, json |-> Some(JObject(EmptyMap))]

\* struct PacketData { data, json, is_json, built }
PacketData_new == [data |-> None, json |-> None, is_json |-> FALSE, built |-> None]
PacketData_add(d, object) == [d EXCEPT !.data = Some(object)]
PacketData_add_map(d, map) == [d EXCEPT !.data = Some(PacketValue_Object(map))]
PacketData_add_json(d, json) == [d EXCEPT !.json = Some(json), !.is_json = TRUE]
PacketData_is_json(d) == d.is_json
PacketData_get_map(d) == d.data

\* a set_built that keeps no serialized form
PacketData_set_built_jsononly(d, data) ==
    [d EXCEPT !.json = Some(data), !.is_json = TRUE]

\* a set_built that keeps the serialized form alone
PacketData_set_built_stringonly(d, data) ==
    [d EXCEPT !.is_json = TRUE, !.built = Some(Value_to_string(data))]

\* a set_built that uses up the value it was built from and does not mark
\* the data as JSON
PacketData_set_built_consuming(d, data) ==
    [d EXCEPT !.json = Some(data), !.data = None, !.built = Some(Value_to_string(data))]

\* PacketData::set_built
PacketData_set_built(d, data) ==
    [d EXCEPT !.json = Some(data), !.is_json = TRUE, !.built = Some(Value_to_string(data))]

PacketData_get_string(d) ==
    IF d.built # None THEN [err |-> None, str |-> d.built]
    ELSE [err |-> Some(PacketError(3000)), str |-> None]

\* PacketBuilder::new and PacketBuilder::new_json: the builder's data
PacketBuilder_new(data) ==
    IF data.kind = "Object" THEN PacketData_add_map(PacketData_new, data.val)
    ELSE PacketData_add(PacketData_new, data)

PacketBuilder_new_json(data) == PacketData_add_json(PacketData_new, data)

\* PacketBuilder::build: the builder's data after the call, and Ok with a
\* clone of it or the error
PacketBuilder_build(d) ==
    IF PacketData_is_json(d)
    THEN LET got == PacketData_get(d)
         IN  IF got.err # None THEN [data |-> d, err |-> got.err, ok |-> None]
             ELSE LET d2 == PacketData_set_built(d, Unwrap(got.json))
                  IN  [data |-> d2, err |-> None, ok |-> Some(d2)]
    ELSE LET map == PacketData_get_map(d)
         IN  IF map = None THEN [data |-> d, err |-> Some(BuildError(1000)), ok |-> None]
             ELSE LET serialized == to_json(Unwrap(map))
                  IN  IF serialized.err # None
                      THEN [data |-> d, err |-> serialized.err, ok |-> None]
                      ELSE LET d2 == PacketData_set_built(d, Unwrap(serialized.json))
                           IN  [data |-> d2, err |-> None, ok |-> Some(d2)]

(* ------------------------------- signer ------------------------------- *)

\* the signature key.sign(data) returns when it succeeds
Signature(key, data) == [by |-> key.name, over |-> data]

\* sign_ec: fails holds when the external signer returns Err
sign_ec(data, key, fails) ==
    IF fails THEN [err |-> Some(KeyError(7000)), sig |-> Signature(key, data)]
    ELSE [err |-> None, sig |-> Signature(key, data)]

sign_rsa(data, key, fails) ==
    IF fails THEN [err |-> Some(KeyError(7001)), sig |-> Signature(key, data)]
    ELSE [err |-> None, sig |-> Signature(key, data)]

sign_internal(data, key, fails) ==
    IF key.kind = "Rsa" THEN sign_rsa(data, key, fails) ELSE sign_ec(data, key, fails)

\* an insert that keeps the signature a stream id already has
sigs_insert_first(sg, streamid, signature) ==
    IF streamid \in DOMAIN sg THEN sg ELSE Insert(sg, streamid, signature)

\* self.sigs.insert(signee.streamid.clone(), signature)
sigs_insert(sg, streamid, signature) == Insert(sg, streamid, signature)

\* the signing loop of build and sign from signee i on: every signature is
\* inserted into the map as soon as it is made, and the first signer error
\* leaves the loop. failAt is the signee whose signer fails, 0 for none.
RECURSIVE sign_loop(_, _, _, _, _)
sign_loop(sg, signees_array, data, failAt, i) ==
    IF i > Len(signees_array) THEN [sigs |-> sg, err |-> None, calls |-> i - 1]
    ELSE LET signee == signees_array[i]
             r == sign_internal(data, signee.key, failAt = i)
         IN  IF r.err # None THEN [sigs |-> sg, err |-> r.err, calls |-> i]
             ELSE sign_loop(sigs_insert(sg, signee.streamid, r.sig), signees_array,
                            data, failAt, i + 1)

\* the loop collecting into a map of its own
sign_all_fresh(sg, signees_array, data, failAt) ==
    sign_loop(EmptyMap, signees_array, data, failAt, 1)

\* the whole loop, over the builder's signature map as it stands
sign_all(sg, signees_array, data, failAt) == sign_loop(sg, signees_array, data, failAt, 1)

(* ------------------------- TransactionBuilder ------------------------- *)

\* the namespace check returning the contract's code
check_required_samecode(pd) ==
    IF "contract" \notin DOMAIN pd THEN Some(TxBuildError(5006))
    ELSE IF "namespace" \notin DOMAIN pd THEN Some(TxBuildError(5006))
    ELSE IF "input" \notin DOMAIN pd THEN Some(TxBuildError(5008))
    ELSE None

\* the checks made in the order input, namespace, contract
check_required_inputfirst(pd) ==
    IF "input" \notin DOMAIN pd THEN Some(TxBuildError(5008))
    ELSE IF "namespace" \notin DOMAIN pd THEN Some(TxBuildError(5007))
    ELSE IF "contract" \notin DOMAIN pd THEN Some(TxBuildError(5006))
    ELSE None

\* build: contract, namespace and input are required, checked in this order
check_required(pd) ==
    IF "contract" \notin DOMAIN pd THEN Some(TxBuildError(5006))
    ELSE IF "namespace" \notin DOMAIN pd THEN Some(TxBuildError(5007))
    ELSE IF "input" \notin DOMAIN pd THEN Some(TxBuildError(5008))
    ELSE None

checked == {"contract", "namespace", "input"}

\* the loop adding nothing
add_rest_none(body, pd, keys) == body

\* build: the loop adding every other collected field to the body
RECURSIVE add_rest(_, _, _)
add_rest(body, pd, keys) ==
    IF keys = {} THEN body
    ELSE LET key == CHOOSE k \in keys : TRUE
         IN  add_rest(TransactionBody_add(body, key, pd[key]), pd, keys \ {key})

\* build: the TransactionBody made from the collected fields
body_of(pd) ==
    add_rest(TransactionBody_new(pd["contract"], pd["namespace"], pd["input"]),
             pd, DOMAIN pd \ checked)

\* the envelope leaving $sigs out when there is no signature
envelope_dropempty(built_packet, sg, td) ==
    LET j1 == Insert(EmptyMap, "$tx", built_packet)
        j2 == IF sg = EmptyMap THEN j1 ELSE Insert(j1, "$sigs", sg)
        j3 == IF "territoriality" \in DOMAIN td
              THEN Insert(j2, "$territoriality", td["territoriality"]) ELSE j2
        j4 == IF "selfsign" \in DOMAIN td
              THEN Insert(j3, "$selfsign", td["selfsign"]) ELSE j3
    IN  j4

\* the envelope without the $selfsign flag
envelope_flagless(built_packet, sg, td) ==
    LET j1 == Insert(EmptyMap, "$tx", built_packet)
        j2 == Insert(j1, "$sigs", sg)
        j3 == IF "territoriality" \in DOMAIN td
              THEN Insert(j2, "$territoriality", td["territoriality"]) ELSE j2
    IN  j3

\* build: the envelope, $territoriality and $selfsign copied when set
envelope(built_packet, sg, td) ==
    LET j1 == Insert(EmptyMap, "$tx", built_packet)
        j2 == Insert(j1, "$sigs", sg)
        j3 == IF "territoriality" \in DOMAIN td
              THEN Insert(j2, "$territoriality", td["territoriality"]) ELSE j2
        j4 == IF "selfsign" \in DOMAIN td
              THEN Insert(j3, "$selfsign", td["selfsign"]) ELSE j3
    IN  j4

\* the envelope assembled again from the flags as they are now
resigned_reassembled(json, sg) == envelope(json["$tx"], sg, tx_data)

\* the envelope with its $tx assembled again from the fields as they are now
resigned_refreshed(json, sg) ==
    Insert(Insert(json, "$tx", TransactionBody_json(body_of(packet_data))), "$sigs", sg)

\* sign: the cached envelope with its $sigs replaced
resigned(json, sg) == Insert(json, "$sigs", sg)

\* the missing packet reported with the code of the missing envelope
cached_packet_5005(p) ==
    IF p = None THEN [err |-> Some(TxBuildError(5005)), json |-> None]
    ELSE TransactionBody_get(Unwrap(p))

\* the packet assembled again from the fields as they are now
cached_packet_reassembled(p) ==
    IF p = None THEN [err |-> Some(TxBuildError(5004)), json |-> None]
    ELSE [err |-> None, json |-> Some(TransactionBody_json(body_of(packet_data)))]

\* sign: the packet that is signed, the JSON of the cached body
cached_packet(p) ==
    IF p = None THEN [err |-> Some(TxBuildError(5004)), json |-> None]
    ELSE TransactionBody_get(Unwrap(p))

\* struct TransactionBuilder
Builder == [packet_data |-> packet_data, tx_data |-> tx_data, packet |-> packet,
            tx |-> tx, sigs |-> sigs]

\* a build that caches an empty body when a field is missing
TransactionBuilder_build_poisoned(b, signees, failAt) ==
    LET missing == check_required(b.packet_data)
    IN  IF missing # None
        THEN [b |-> [b EXCEPT !.packet = Some(TransactionBody_new("", "", ""))],
              err |-> missing, missing |-> TRUE, ret |-> None,
              calls |-> 0, data |-> None, handed |-> None]
        ELSE LET body == TransactionBody_build(body_of(b.packet_data))
                 built_packet == Unwrap(body.json)
                 data == to_string(built_packet, TxKeyOrder)
                 r == sign_all(b.sigs, Signees_get(signees), data, failAt)
                 handed == IF r.calls > 0 THEN Some(data) ELSE None
                 b2 == [b EXCEPT !.packet = Some(body), !.sigs = r.sigs]
             IN  IF r.err # None
                 THEN [b |-> b2, err |-> r.err, missing |-> FALSE, ret |-> None,
                       calls |-> r.calls, data |-> Some(data), handed |-> handed]
                 ELSE LET json == envelope(built_packet, r.sigs, b.tx_data)
                      IN  [b |-> [b2 EXCEPT !.tx = Some(json)], err |-> None,
                           missing |-> FALSE, ret |-> Some(env_to_string(json)),
                           calls |-> r.calls, data |-> Some(data), handed |-> handed]

\* TransactionBuilder::build on the builder b: the builder after the call,
\* the error or the string returned, the number of signer calls made, the
\* serialized body and whether it was handed to the signer
TransactionBuilder_build(b, signees, failAt) ==
    LET missing == check_required(b.packet_data)
    IN  IF missing # None
        THEN [b |-> b, err |-> missing, missing |-> TRUE, ret |-> None,
              calls |-> 0, data |-> None, handed |-> None]
        ELSE LET body == TransactionBody_build(body_of(b.packet_data))
                 built_packet == Unwrap(body.json)
                 data == to_string(built_packet, TxKeyOrder)
                 r == sign_all(b.sigs, Signees_get(signees), data, failAt)
                 handed == IF r.calls > 0 THEN Some(data) ELSE None
                 b2 == [b EXCEPT !.packet = Some(body), !.sigs = r.sigs]
             IN  IF r.err # None
                 THEN [b |-> b2, err |-> r.err, missing |-> FALSE, ret |-> None,
                       calls |-> r.calls, data |-> Some(data), handed |-> handed]
                 ELSE LET json == envelope(built_packet, r.sigs, b.tx_data)
                      IN  [b |-> [b2 EXCEPT !.tx = Some(json)], err |-> None,
                           missing |-> FALSE, ret |-> Some(env_to_string(json)),
                           calls |-> r.calls, data |-> Some(data), handed |-> handed]

(* ------------------------------ history ------------------------------- *)

\* what the call before the one just made returned, when it was a build, a
\* get or a get_json
Said ==
    IF last.op \in {"build", "get", "get_json"}
    THEN Some([op |-> last.op, err |-> last.err, ret |-> last.ret, json |-> last.json])
    ELSE None

\* what the call just made was and returned: the operation, its error, the
\* registry it was given, the number of signer calls it made, the message it
\* handed to the signer, the string it returned, the JSON value it returned
\* and the PacketData it was given; prev is the builder as the call found it
Returned(op, err, signees, calls, data, ret, json, arg) ==
    /\ last' = [op |-> op, err |-> err, signees |-> signees, calls |-> calls,
                data |-> data, ret |-> ret, json |-> json, arg |-> arg]
    /\ prev' = [packet_data |-> packet_data, tx_data |-> tx_data, packet |-> packet,
                tx |-> tx, sigs |-> sigs, said |-> Said,
                fresh |-> ~ghost.buildCalled /\ ~ghost.signCalled]
    /\ steps' = steps + 1
    /\ UNCHANGED << pvars, svars, bvars >>

Called(op, err, signees, calls, data, ret) ==
    Returned(op, err, signees, calls, data, ret, None, None)

Setter(op, err) == Called(op, err, << >>, 0, None, None)

\* a setter that was handed the PacketData p
Took(op, err, p) == Returned(op, err, << >>, 0, None, None, None, Some(p))

\* the signatures a call inserted into the map, as (stream id, signature).
\* ghost.buildCalled: build has been called; ghost.signCalled: sign has been
\* called; ghost.succeeded: a build call has returned Ok; ghost.missed: a
\* build call has failed for a missing field; prev.fresh: neither build nor
\* sign had been called when the last call was made; ghost.built: the message of the
\* last build call, if it succeeded; ghost.returned: the signatures made by
\* calls that succeeded; ghost.dropped: those made by build calls that failed;
\* ghost.wrote: per field, the value the constructor or the last successful
\* setter call was given
Made(signees, data, n) ==
    { << signees[i].streamid, Signature(signees[i].key, data) >> : i \in 1..n }

PacketKeys == {"namespace", "contract", "entry", "input", "output", "readonly"}
TxKeys == {"territoriality", "selfsign"}
NoWrites == [k \in PacketKeys \cup TxKeys |-> None]
Wrote(key, v) == ghost' = [ghost EXCEPT !.wrote[key] = Some(v)]

(* ------------------------------ actions ------------------------------- *)

\* TransactionBuilder::new(namespace, contract) or TransactionBuilder::new_blank()
InitBuilder ==
    /\ \/ /\ packet_data = Insert(Insert(EmptyMap, "namespace", "ns"), "contract", "c")
          /\ ghost = [buildCalled |-> FALSE, signCalled |-> FALSE, succeeded |-> FALSE,
                      missed |-> FALSE, built |-> None, returned |-> {},
                      dropped |-> {},
                      wrote |-> [NoWrites EXCEPT !["namespace"] = Some("ns"),
                                                 !["contract"] = Some("c")]]
       \/ /\ packet_data = EmptyMap
          /\ ghost = [buildCalled |-> FALSE, signCalled |-> FALSE, succeeded |-> FALSE,
                      missed |-> FALSE, built |-> None, returned |-> {},
                      dropped |-> {}, wrote |-> NoWrites]
    /\ tx_data = EmptyMap
    /\ packet = None
    /\ tx = None
    /\ sigs = EmptyMap
    /\ last = [op |-> "new", err |-> None, signees |-> << >>, calls |-> 0,
               data |-> None, ret |-> None, json |-> None, arg |-> None]
    /\ prev = [packet_data |-> packet_data, tx_data |-> EmptyMap, packet |-> None,
               tx |-> None, sigs |-> EmptyMap, said |-> None, fresh |-> TRUE]
    /\ steps = 0

\* no registry filled and nothing onboarded
NoOnboard ==
    [op |-> "none", arg |-> None, key_type |-> None, key_name |-> None,
     genFails |-> FALSE, pemFails |-> FALSE, failAt |-> 0,
     err |-> None, ret |-> None, json |-> None, signees |-> << >>, key |-> None]
InitSignees ==
    /\ registry = Signees_new
    /\ snapshot = None
    /\ log = << >>
    /\ onboarded = NoOnboard

\* no call made on the TransactionBody that stands beside
NoBodyCall == [op |-> "new", key |-> None, err |-> None, json |-> None, built |-> None]
InitBody ==
    /\ tbody = TransactionBody_new("c", "ns", "j1")
    /\ blast = NoBodyCall

\* a transaction builder just made
Init ==
    /\ InitBuilder
    /\ InitSignees
    /\ InitBody
    /\ packet_builder = [data |-> PacketData_new]
    /\ packet_ok = None
    /\ plast = [op |-> "none", err |-> None, json |-> None, str |-> None,
                from |-> "none", given |-> None, before |-> None]

territoriality(v) ==
    /\ steps < MaxSteps
    /\ tx_data' = Insert(tx_data, "territoriality", v)
    /\ Setter("territoriality", None)
    /\ Wrote("territoriality", v)
    /\ UNCHANGED << packet_data, packet, tx, sigs >>

entry(v) ==
    /\ steps < MaxSteps
    /\ packet_data' = Insert(packet_data, "entry", v)
    /\ Setter("entry", None)
    /\ Wrote("entry", v)
    /\ UNCHANGED << tx_data, packet, tx, sigs >>

contract(v) ==
    /\ steps < MaxSteps
    /\ packet_data' = Insert(packet_data, "contract", v)
    /\ Setter("contract", None)
    /\ Wrote("contract", v)
    /\ UNCHANGED << tx_data, packet, tx, sigs >>

namespace(v) ==
    /\ steps < MaxSteps
    /\ packet_data' = Insert(packet_data, "namespace", v)
    /\ Setter("namespace", None)
    /\ Wrote("namespace", v)
    /\ UNCHANGED << tx_data, packet, tx, sigs >>

\* the three setters failing with one code
set_packet_samecode(pd, key, p, code) ==
    LET r == PacketData_get(p)
    IN  IF r.err = None THEN [pd |-> Insert(pd, key, Unwrap(r.json)), err |-> None]
        ELSE [pd |-> pd, err |-> Some(TxBuildError(5001))]

\* input, output and readonly differ in their key and their error code
set_packet(pd, key, p, code) ==
    LET r == PacketData_get(p)
    IN  IF r.err = None THEN [pd |-> Insert(pd, key, Unwrap(r.json)), err |-> None]
        ELSE [pd |-> pd, err |-> Some(TxBuildError(code))]

input(p) ==
    /\ steps < MaxSteps
    /\ LET r == set_packet(packet_data, "input", p, 5001)
       IN  /\ packet_data' = r.pd
           /\ Took("input", r.err, p)
           /\ IF r.err = None THEN Wrote("input", Unwrap(p.json)) ELSE UNCHANGED ghost
    /\ UNCHANGED << tx_data, packet, tx, sigs >>

output(p) ==
    /\ steps < MaxSteps
    /\ LET r == set_packet(packet_data, "output", p, 5002)
       IN  /\ packet_data' = r.pd
           /\ Took("output", r.err, p)
           /\ IF r.err = None THEN Wrote("output", Unwrap(p.json)) ELSE UNCHANGED ghost
    /\ UNCHANGED << tx_data, packet, tx, sigs >>

readonly(p) ==
    /\ steps < MaxSteps
    /\ LET r == set_packet(packet_data, "readonly", p, 5003)
       IN  /\ packet_data' = r.pd
           /\ Took("readonly", r.err, p)
           /\ IF r.err = None THEN Wrote("readonly", Unwrap(p.json)) ELSE UNCHANGED ghost
    /\ UNCHANGED << tx_data, packet, tx, sigs >>

\* a selfsign that files the flag among the packet-level fields
selfsign_packet ==
    /\ steps < MaxSteps
    /\ packet_data' = Insert(packet_data, "selfsign", "true")
    /\ Setter("selfsign", None)
    /\ Wrote("selfsign", "true")
    /\ UNCHANGED << tx_data, packet, tx, sigs >>

selfsign ==
    /\ steps < MaxSteps
    /\ tx_data' = Insert(tx_data, "selfsign", "true")
    /\ Setter("selfsign", None)
    /\ Wrote("selfsign", "true")
    /\ UNCHANGED << packet_data, packet, tx, sigs >>

\* a read that makes up an envelope when none is cached
cached_tx_lenient(t) ==
    IF t # None THEN [err |-> None, json |-> t]
    ELSE [err |-> None, json |-> Some(envelope(EmptyMap, EmptyMap, EmptyMap))]

\* the missing envelope reported as "Packet data not built yet"
cached_tx_5005(t) ==
    IF t # None THEN [err |-> None, json |-> t]
    ELSE [err |-> Some(TxBuildError(5005)), json |-> None]

\* get and get_json: the cached envelope, or "No transaction data"
cached_tx(t) ==
    IF t # None THEN [err |-> None, json |-> t]
    ELSE [err |-> Some(TxBuildError(5000)), json |-> None]

\* the serialization of the body alone
tx_string_body(t) == to_string(t["$tx"], TxKeyOrder)

\* get: tx.to_string()
tx_string(t) == env_to_string(t)

\* TransactionBuilder::get
get ==
    /\ steps < MaxSteps
    /\ LET r == cached_tx(tx)
       IN  Returned("get", r.err, << >>, 0, None,
                    IF r.err = None THEN Some(tx_string(Unwrap(r.json))) ELSE None,
                    None, None)
    /\ UNCHANGED << packet_data, tx_data, packet, tx, sigs, ghost >>

\* a get_json that takes the envelope out of the builder
get_json_taking ==
    /\ steps < MaxSteps
    /\ LET r == cached_tx(tx)
       IN  Returned("get_json", r.err, << >>, 0, None, None, r.json, None)
    /\ tx' = None
    /\ UNCHANGED << packet_data, tx_data, packet, sigs, ghost >>

\* TransactionBuilder::get_json
get_json ==
    /\ steps < MaxSteps
    /\ LET r == cached_tx(tx)
       IN  Returned("get_json", r.err, << >>, 0, None, None, r.json, None)
    /\ UNCHANGED << packet_data, tx_data, packet, tx, sigs, ghost >>

\* TransactionBuilder::sign; failAt is the signee whose signer fails, 0 for none
sign(signees, failAt) ==
    /\ steps < MaxSteps
    /\ UNCHANGED << packet_data, tx_data, packet >>
    /\ LET got == cached_packet(packet)
       IN  IF got.err # None
           THEN /\ failAt = 0
                /\ Called("sign", got.err, signees, 0, None, None)
                /\ ghost' = [ghost EXCEPT !.signCalled = TRUE]
                /\ UNCHANGED << tx, sigs >>
           ELSE \E data \in { to_string(Unwrap(got.json), TxKeyOrder) } :
                \E r \in { sign_all(sigs, Signees_get(signees), data, failAt) } :
                LET handed == IF r.calls > 0 THEN Some(data) ELSE None
                IN  /\ sigs' = r.sigs
                    /\ IF r.err # None
                       THEN /\ Called("sign", r.err, signees, r.calls, handed, None)
                            /\ ghost' = [ghost EXCEPT !.signCalled = TRUE]
                            /\ UNCHANGED tx
                       ELSE IF tx = None
                       THEN /\ Called("sign", Some(TxBuildError(5005)), signees,
                                      r.calls, handed, None)
                            /\ ghost' = [ghost EXCEPT !.signCalled = TRUE]
                            /\ UNCHANGED tx
                       ELSE /\ tx' = Some(resigned(Unwrap(tx), r.sigs))
                            /\ Called("sign", None, signees, r.calls, handed, None)
                            /\ ghost' = [ghost EXCEPT !.signCalled = TRUE,
                                            !.returned =
                                                @ \cup Made(signees, data, r.calls)]

\* TransactionBuilder::build; failAt is the signee whose signer fails, 0 for none
build(signees, failAt) ==
    /\ steps < MaxSteps
    /\ UNCHANGED << packet_data, tx_data >>
    /\ \E r \in { TransactionBuilder_build(Builder, signees, failAt) } :
       \E made \in { IF r.data = None THEN {}
                      ELSE Made(signees, Unwrap(r.data),
                                IF r.err = None THEN r.calls ELSE r.calls - 1) } :
           /\ r.missing => failAt = 0
           /\ packet' = r.b.packet
           /\ tx' = r.b.tx
           /\ sigs' = r.b.sigs
           /\ Called("build", r.err, signees, r.calls, r.handed, r.ret)
           /\ ghost' = [ghost EXCEPT
                           !.buildCalled = TRUE,
                           !.built = IF r.err = None THEN r.data ELSE None,
                           !.succeeded = @ \/ r.err = None,
                           !.missed = @ \/ r.missing,
                           !.returned = IF r.err = None THEN @ \cup made ELSE @,
                           !.dropped = IF r.err # None THEN @ \cup made ELSE @]

Next ==
    \/ \E v \in TerritorialityVals : territoriality(v)
    \/ \E v \in EntryVals : entry(v)
    \/ \E v \in ContractVals : contract(v)
    \/ \E v \in NamespaceVals : namespace(v)
    \/ \E p \in PacketDatas : input(p)
    \/ \E p \in PacketDatas : output(p)
    \/ \E p \in PacketDatas : readonly(p)
    \/ selfsign
    \/ get
    \/ get_json
    \/ \E signees \in Signees : \E failAt \in 0..Len(signees) : sign(signees, failAt)
    \/ \E signees \in Signees : \E failAt \in 0..Len(signees) : build(signees, failAt)

Spec == Init /\ [][Next]_vars

\* TransactionBuilder::new with its arguments taken for each other
TransactionBuilder_new_swapped(ns, c) ==
    [packet_data |-> Insert(Insert(EmptyMap, "namespace", c), "contract", ns),
     tx_data |-> EmptyMap, packet |-> None, tx |-> None, sigs |-> EmptyMap]

\* TransactionBuilder::new
TransactionBuilder_new(ns, c) ==
    [packet_data |-> Insert(Insert(EmptyMap, "namespace", ns), "contract", c),
     tx_data |-> EmptyMap, packet |-> None, tx |-> None, sigs |-> EmptyMap]

\* TransactionBuilder::selfsign on the builder b
TransactionBuilder_selfsign(b) == [b EXCEPT !.tx_data = Insert(@, "selfsign", "true")]

\* TransactionBuilder::input on the builder b
TransactionBuilder_input(b, p) ==
    LET r == set_packet(b.packet_data, "input", p, 5001)
    IN  [b |-> [b EXCEPT !.packet_data = r.pd], err |-> r.err]

(* ----------------------------- onboarding ----------------------------- *)

KeyNames == {"k1", "k2"}
\* the keys handed to onboard_tx, and those generate_onboard_tx makes
OnboardKeys == [name : KeyNames, kind : {"Ec", "Rsa"}]
\* enum KeyType { RSA, EC }
KeyType == {"RSA", "EC"}

TxGenerateError(code) == [kind |-> "TxGenerateError", code |-> code]

\* the public PEM key.get_pem() returns when it succeeds
PublicPem(key) == "pem:" \o key.name \o ":" \o key.kind

\* get_pem: fails holds when the external key returns Err
get_pem(key, fails) ==
    IF fails THEN [err |-> Some(KeyError(7002)), pem |-> None]
    ELSE [err |-> None, pem |-> Some(PublicPem(key))]

\* one label for both kinds of key
key_type_label_rsa(key) == "rsa"

\* onboard_tx: the key type written into the input
key_type_label(key) == IF key.kind = "Rsa" THEN "rsa" ELSE "secp256k1"

\* the value of F at v, v being computed once
With(v, F(_)) == CHOOSE out \in { F(x) : x \in { v } } : TRUE

\* onboard_tx; pemFails and failAt tell which external call fails. The
\* result is the error or the string returned, with the envelope that
\* string serializes and the registry passed to build
onboard_tx(key, pemFails, failAt) ==
    LET Err(e) == [err |-> e, ret |-> None, json |-> None, signees |-> << >>]
        key_name == key.name
        key_type == key_type_label(key)
        input_value(pem) ==
            PacketValue_Object(
                key_name :> PacketValue_Object(
                    ("type" :> PacketValue_String(key_type))
                    @@ ("publicKey" :> PacketValue_String(pem))))
        signees == Signees_add_selfsign(Signees_new, key)
        tx_builder == TransactionBuilder_selfsign(
                          TransactionBuilder_new("default", "onboard"))
    IN  With(get_pem(key, pemFails), LAMBDA pem :
          IF pem.err # None THEN Err(pem.err)
          ELSE With(PacketBuilder_build(PacketBuilder_new(input_value(Unwrap(pem.pem)))),
                 LAMBDA built :
            IF built.err # None THEN Err(built.err)
            ELSE With(TransactionBuilder_input(tx_builder, Unwrap(built.ok)),
                   LAMBDA with_input :
              IF with_input.err # None THEN Err(with_input.err)
              ELSE With(TransactionBuilder_build(with_input.b, signees, failAt),
                     LAMBDA r :
                IF r.err # None THEN Err(r.err)
                ELSE [err |-> None, ret |-> r.ret, json |-> r.b.tx,
                      signees |-> signees]))))

\* key creation failing with one code for both kinds
generate_key_samecode(key_type, key_name, fails) ==
    IF fails THEN [err |-> Some(TxGenerateError(6000)), key |-> None]
    ELSE [err |-> None,
          key |-> Some([name |-> key_name, kind |-> IF key_type = "RSA" THEN "Rsa" ELSE "Ec"])]

\* generate_onboard_tx: RSA::new or EllipticCurve::new; fails holds when the
\* external constructor returns Err
generate_key(key_type, key_name, fails) ==
    IF key_type = "RSA"
    THEN IF fails THEN [err |-> Some(TxGenerateError(6000)), key |-> None]
         ELSE [err |-> None, key |-> Some([name |-> key_name, kind |-> "Rsa"])]
    ELSE IF fails THEN [err |-> Some(TxGenerateError(6001)), key |-> None]
         ELSE [err |-> None, key |-> Some([name |-> key_name, kind |-> "Ec"])]

\* generate_onboard_tx: Ok((key, tx)) or the error
generate_onboard_tx(key_type, key_name, genFails, pemFails, failAt) ==
    With(generate_key(key_type, key_name, genFails), LAMBDA made :
      IF made.err # None THEN [err |-> made.err, key |-> None, ret |-> None]
      ELSE With(onboard_tx(Unwrap(made.key), pemFails, failAt), LAMBDA onboard :
             IF onboard.err # None
             THEN [err |-> onboard.err, key |-> None, ret |-> None]
             ELSE [err |-> None, key |-> made.key, ret |-> onboard.ret]))

(* --------------------------- packet actions --------------------------- *)

\* PacketBuilder::new(v) for a PacketValue v or PacketBuilder::new_json(j) for
\* a JSON value j, beside a blank transaction builder; plast.given is the
\* value the builder was made from, plast.before the PacketData the builder
\* had returned when build was last called
InitPacket ==
    /\ InitBuilder
    /\ InitSignees
    /\ InitBody
    /\ packet_data = EmptyMap
    /\ packet_ok = None
    /\ \/ \E n \in 1..MaxNodes : \E v \in PacketValues(n) :
             /\ packet_builder = [data |-> PacketBuilder_new(v)]
             /\ plast = [op |-> "new", err |-> None, json |-> None, str |-> None,
                         from |-> "new", given |-> Some(v), before |-> None]
       \/ \E n \in 1..MaxNodes : \E j \in JsonValues(n) :
             /\ packet_builder = [data |-> PacketBuilder_new_json(j)]
             /\ plast = [op |-> "new_json", err |-> None, json |-> None, str |-> None,
                         from |-> "new_json", given |-> Some(j),
                         before |-> None]

PacketCalled(op, err, json, str) ==
    plast' = [plast EXCEPT !.op = op, !.err = err, !.json = json, !.str = str]

\* PacketBuilder::build
build_packet ==
    /\ LET r == PacketBuilder_build(packet_builder.data)
       IN  /\ packet_builder' = [data |-> r.data]
           /\ packet_ok' = IF r.err = None THEN r.ok ELSE packet_ok
           /\ plast' = [plast EXCEPT !.op = "build", !.err = r.err, !.json = None,
                                     !.str = None, !.before = packet_ok]
    /\ UNCHANGED << txvars, svars, bvars >>

\* PacketData::get on the PacketData build returned
get_packet ==
    /\ packet_ok # None
    /\ LET r == PacketData_get(Unwrap(packet_ok))
       IN  PacketCalled("get", r.err, r.json, None)
    /\ UNCHANGED << txvars, svars, bvars, packet_builder, packet_ok >>

\* PacketData::get_string on the PacketData build returned
get_string ==
    /\ packet_ok # None
    /\ LET r == PacketData_get_string(Unwrap(packet_ok))
       IN  PacketCalled("get_string", r.err, None, r.str)
    /\ UNCHANGED << txvars, svars, bvars, packet_builder, packet_ok >>

NextPacket ==
    \/ build_packet
    \/ get_packet
    \/ get_string

SpecPacket == InitPacket /\ [][NextPacket]_vars

(* ---------------------- signees and onboarding ------------------------ *)

\* Signees::new, beside a blank transaction builder
InitRegistry ==
    /\ InitBuilder
    /\ packet_data = EmptyMap
    /\ packet_builder = [data |-> PacketData_new]
    /\ packet_ok = None
    /\ plast = [op |-> "none", err |-> None, json |-> None, str |-> None,
                from |-> "none", given |-> None, before |-> None]
    /\ InitSignees
    /\ InitBody

\* Signees::add
add(key, streamid) ==
    /\ Len(registry) < MaxSignees
    /\ registry' = Signees_add(registry, key, streamid)
    /\ log' = Append(log, [op |-> "add", key |-> key, streamid |-> Some(streamid)])
    /\ UNCHANGED << txvars, pvars, bvars, snapshot, onboarded >>

\* Signees::add_selfsign
add_selfsign(key) ==
    /\ Len(registry) < MaxSignees
    /\ registry' = Signees_add_selfsign(registry, key)
    /\ log' = Append(log, [op |-> "add_selfsign", key |-> key, streamid |-> None])
    /\ UNCHANGED << txvars, pvars, bvars, snapshot, onboarded >>

\* Signees::get
signees_get ==
    /\ snapshot' = Some([at |-> Len(log), keys |-> Signees_get(registry)])
    /\ UNCHANGED << txvars, pvars, bvars, registry, log, onboarded >>

\* TransactionBuilder::onboard_tx
onboard(key, pemFails, failAt) ==
    /\ \E r \in { onboard_tx(key, pemFails, failAt) } :
          onboarded' = [NoOnboard EXCEPT !.op = "onboard_tx", !.arg = Some(key),
                           !.pemFails = pemFails, !.failAt = failAt,
                           !.err = r.err, !.ret = r.ret, !.json = r.json,
                           !.signees = r.signees]
    /\ UNCHANGED << txvars, pvars, bvars, registry, snapshot, log >>

\* TransactionBuilder::generate_onboard_tx
generate_onboard(key_type, key_name, genFails, pemFails, failAt) ==
    /\ genFails => ~pemFails /\ failAt = 0
    /\ \E r \in { generate_onboard_tx(key_type, key_name, genFails, pemFails, failAt) } :
          onboarded' = [NoOnboard EXCEPT !.op = "generate_onboard_tx",
                           !.key_type = Some(key_type), !.key_name = Some(key_name),
                           !.genFails = genFails, !.pemFails = pemFails,
                           !.failAt = failAt,
                           !.err = r.err, !.ret = r.ret, !.key = r.key]
    /\ UNCHANGED << txvars, pvars, bvars, registry, snapshot, log >>

NextSignees ==
    \/ \E key \in Key : \E streamid \in StreamIds : add(key, streamid)
    \/ \E key \in Key : add_selfsign(key)
    \/ signees_get
    \/ \E key \in OnboardKeys : \E pemFails \in BOOLEAN : \E failAt \in 0..1 :
          ~(pemFails /\ failAt = 1) /\ onboard(key, pemFails, failAt)
    \/ \E key_type \in KeyType : \E key_name \in KeyNames :
          \E genFails, pemFails \in BOOLEAN : \E failAt \in 0..1 :
             ~(pemFails /\ failAt = 1)
             /\ generate_onboard(key_type, key_name, genFails, pemFails, failAt)

SpecSignees == InitRegistry /\ [][NextSignees]_vars

(* -------------------------- TransactionBody --------------------------- *)

\* the keys and values add is called with
BodyKeys == {"entry", "output", "readonly"}
BodyVals == EntryVals \cup JsonVals

\* TransactionBody::new(contract, namespace, input), beside a blank
\* transaction builder
InitTransactionBody ==
    /\ InitBuilder
    /\ packet_data = EmptyMap
    /\ InitSignees
    /\ packet_builder = [data |-> PacketData_new]
    /\ packet_ok = None
    /\ plast = [op |-> "none", err |-> None, json |-> None, str |-> None,
                from |-> "none", given |-> None, before |-> None]
    /\ \E c \in ContractVals : \E ns \in NamespaceVals : \E i \in JsonVals :
          tbody = TransactionBody_new(c, ns, i)
    /\ blast = NoBodyCall

\* TransactionBody::add
body_add(key, data) ==
    /\ tbody' = TransactionBody_add(tbody, key, data)
    /\ blast' = [blast EXCEPT !.op = "add", !.key = Some(key), !.err = None,
                              !.json = None]
    /\ UNCHANGED << txvars, pvars, svars >>

\* TransactionBody::build: blast.built is the JSON the last build returned
body_build ==
    /\ tbody' = TransactionBody_build(tbody)
    /\ blast' = [blast EXCEPT !.op = "build", !.key = None, !.err = None,
                              !.json = TransactionBody_build(tbody).json,
                              !.built = TransactionBody_build(tbody).json]
    /\ UNCHANGED << txvars, pvars, svars >>

\* TransactionBody::get
body_get ==
    /\ \E r \in { TransactionBody_get(tbody) } :
          blast' = [blast EXCEPT !.op = "get", !.key = None, !.err = r.err,
                                 !.json = r.json]
    /\ UNCHANGED << txvars, pvars, svars, tbody >>

NextBody ==
    \/ \E key \in BodyKeys : \E data \in BodyVals : body_add(key, data)
    \/ body_build
    \/ body_get

SpecBody == InitTransactionBody /\ [][NextBody]_vars

(* ------------------------------ claims -------------------------------- *)

Fields == DOMAIN packet_data
Env == Unwrap(tx)
PrevEnv == Unwrap(prev.tx)
LastIds == { last.signees[i].streamid : i \in 1..Len(last.signees) }
\* the key of the last signee of the registry bound to a stream id
LastKeyFor(id) ==
    LET is == { i \in 1..Len(last.signees) : last.signees[i].streamid = id }
    IN  last.signees[CHOOSE i \in is : \A j \in is : j <= i].key
SignedOk == last.op \in {"build", "sign"} /\ last.err = None
SignerFailed == last.err # None /\ Unwrap(last.err).kind = "KeyError"

\* C1: a build with exactly one of contract, namespace, input absent fails
\* with that field's own code, 5006, 5007 or 5008, whatever the registry
C1_MissingField ==
    last.op = "build" =>
        /\ Fields \cap checked = {"namespace", "input"}
             => last.err = Some(TxBuildError(5006))
        /\ Fields \cap checked = {"contract", "input"}
             => last.err = Some(TxBuildError(5007))
        /\ Fields \cap checked = {"contract", "namespace"}
             => last.err = Some(TxBuildError(5008))

C1_Witness ==
    /\ last.op = "build"
    /\ Fields \cap checked = {"contract", "input"}
    /\ Len(last.signees) = 2
    /\ last.err = Some(TxBuildError(5007))

\* C2: after a successful build the envelope's $tx carries the contract,
\* namespace and input last given to the builder (by the constructor or the
\* last setter call), and $sigs has an entry for the stream id of every
\* signee supplied
C2_BuildEnvelope ==
    (last.op = "build" /\ last.err = None) =>
        /\ tx # None
        /\ Some(Env["$tx"]["$contract"]) = ghost.wrote["contract"]
        /\ Some(Env["$tx"]["$namespace"]) = ghost.wrote["namespace"]
        /\ Some(Env["$tx"]["$i"]) = ghost.wrote["input"]
        /\ LastIds \subseteq DOMAIN Env["$sigs"]

C2_Witness ==
    /\ last.op = "build" /\ last.err = None
    /\ Env["$tx"]["$contract"] = "c2"
    /\ Env["$tx"]["$namespace"] = "ns"
    /\ Env["$tx"]["$i"] = "j2"
    /\ LastIds = {"s1"}

\* C3 as claimed: a sign before any build call fails with 5000, "No
\* transaction data"
C3_Original ==
    (last.op = "sign" /\ ~ghost.buildCalled) => last.err = Some(TxBuildError(5000))

\* C3 amended: a sign before any build call fails with 5004, "No packet data
\* to sign", for every registry, and the signer is never called
C3_SignBeforeBuild ==
    (last.op = "sign" /\ ~ghost.buildCalled) =>
        last.err = Some(TxBuildError(5004)) /\ last.calls = 0

C3_Witness ==
    /\ last.op = "sign" /\ ~ghost.buildCalled
    /\ "input" \in Fields
    /\ Len(last.signees) = 2
    /\ last.err = Some(TxBuildError(5004))

\* C4: once an envelope is cached, a successful sign with signees whose
\* stream ids are not yet keys of $sigs adds those ids to $sigs and leaves
\* the value of every key $sigs had unchanged
C4_SignAddsOnly ==
    ( /\ last.op = "sign" /\ last.err = None
      /\ prev.tx # None
      /\ LastIds # {}
      /\ LastIds \cap DOMAIN PrevEnv["$sigs"] = {} ) =>
        /\ LastIds \subseteq DOMAIN Env["$sigs"]
        /\ \A id \in DOMAIN PrevEnv["$sigs"] :
              id \in DOMAIN Env["$sigs"] /\ Env["$sigs"][id] = PrevEnv["$sigs"][id]

\* C5: a sign after a successful build, whatever setters and signs came in
\* between, hands the signer the serialized $tx that build produced
C5_SignsBuiltBody ==
    (last.op = "sign" /\ last.calls > 0 /\ ghost.built # None) =>
        last.data = ghost.built

C5_Witness ==
    /\ last.op = "sign" /\ last.calls > 0 /\ ghost.built # None
    /\ to_string(TransactionBody_json(body_of(packet_data)), TxKeyOrder)
         # Unwrap(ghost.built)

\* C6: a build that returns an error leaves the cached body, the cached
\* envelope and the signature map as they were
C6_FailedBuildKeepsState ==
    (last.op = "build" /\ last.err # None) =>
        packet = prev.packet /\ tx = prev.tx /\ sigs = prev.sigs

\* C7: a build whose signer fails returns 7000 for an elliptic-curve key,
\* 7001 for an RSA key and no transaction string, and no signature that such
\* a build made before failing is in an envelope
C7_NoPartialSignatures ==
    /\ (last.op = "build" /\ SignerFailed) =>
          /\ last.ret = None
          /\ last.err = Some(KeyError(IF last.signees[last.calls].key.kind = "Ec"
                                      THEN 7000 ELSE 7001))
    /\ tx # None =>
          \A id \in DOMAIN Env["$sigs"] :
              << id, Env["$sigs"][id] >> \notin ghost.dropped \ ghost.returned

\* C8: no call removes a stream id from the signature map, and a call that
\* signs for a stream id already present leaves under it the new signature
C8_SigsAccumulate ==
    /\ DOMAIN prev.sigs \subseteq DOMAIN sigs
    /\ (last.op \in {"build", "sign"} /\ last.calls = Len(last.signees) /\ ~SignerFailed) =>
          \A id \in LastIds \cap DOMAIN prev.sigs :
              sigs[id] = Signature(LastKeyFor(id), Unwrap(last.data))

C8_Witness ==
    /\ last.op \in {"build", "sign"} /\ last.err = None
    /\ \E id \in LastIds \cap DOMAIN prev.sigs : sigs[id] # prev.sigs[id]
    /\ DOMAIN prev.sigs \ LastIds # {}

\* C9: when several signees of one registry share a stream id, $sigs has one
\* entry for it, the signature made with the key of the last of them
C9_LastSigneeWins ==
    SignedOk =>
        \A id \in LastIds :
            /\ id \in DOMAIN Env["$sigs"]
            /\ Env["$sigs"][id] = Signature(LastKeyFor(id), Unwrap(last.data))

C9_Witness ==
    /\ SignedOk
    /\ Len(last.signees) = 2
    /\ last.signees[1].streamid = last.signees[2].streamid
    /\ last.signees[1].key # last.signees[2].key
    /\ Env["$sigs"][last.signees[1].streamid].by = last.signees[2].key.name

\* C10: a successful sign changes nothing but $sigs of the cached envelope:
\* its other entries, the cached body and the collected fields stay
C10_SignFrame ==
    (last.op = "sign" /\ last.err = None) =>
        /\ DOMAIN Env = DOMAIN PrevEnv
        /\ \A k \in DOMAIN Env \ {"$sigs"} : Env[k] = PrevEnv[k]
        /\ packet = prev.packet
        /\ packet_data = prev.packet_data
        /\ tx_data = prev.tx_data

C10_Witness ==
    /\ last.op = "sign" /\ last.err = None
    /\ Env["$sigs"] # PrevEnv["$sigs"]
    /\ "territoriality" \in DOMAIN tx_data
    /\ "$territoriality" \notin DOMAIN Env

Reads == {"get", "get_json"}
BuiltOk == last.op = "build" /\ last.err = None
\* the call before the last one returned without error from one of ops
SaidOk(ops) ==
    prev.said # None /\ Unwrap(prev.said).op \in ops /\ Unwrap(prev.said).err = None
\* obj has key iff field was written, and then holds the value last written
Mirrors(obj, key, field) ==
    /\ key \in DOMAIN obj <=> ghost.wrote[field] # None
    /\ key \in DOMAIN obj => Some(obj[key]) = ghost.wrote[field]
BuilderKept ==
    /\ packet_data = prev.packet_data /\ tx_data = prev.tx_data
    /\ packet = prev.packet /\ tx = prev.tx /\ sigs = prev.sigs

\* C11: the envelope of every successful build has $tx and $sigs; a build
\* with an empty registry and the three required fields set succeeds, and
\* when the signature map was empty before it, $sigs is the empty map
C11_SigsAlwaysPresent ==
    /\ BuiltOk => {"$tx", "$sigs"} \subseteq DOMAIN Env
    /\ (last.op = "build" /\ last.signees = << >> /\ checked \subseteq Fields) =>
          /\ last.err = None
          /\ prev.sigs = EmptyMap => Env["$sigs"] = EmptyMap

C11_Witness ==
    /\ BuiltOk /\ last.signees = << >> /\ prev.sigs = EmptyMap
    /\ DOMAIN Env = {"$tx", "$sigs"}
    /\ Env["$sigs"] = EmptyMap

\* C12: in the $tx of a successful build $entry, $o and $r are present iff
\* entry(), a successful output() and a successful readonly() came before,
\* and each holds the value last stored for its field
C12_OptionalBodyFields ==
    BuiltOk =>
        /\ Mirrors(Env["$tx"], "$entry", "entry")
        /\ Mirrors(Env["$tx"], "$o", "output")
        /\ Mirrors(Env["$tx"], "$r", "readonly")

C12_Witness ==
    /\ BuiltOk
    /\ "$r" \notin DOMAIN Env["$tx"]
    /\ "$entry" \in DOMAIN Env["$tx"] /\ Env["$tx"]["$entry"] = "e2"
    /\ "$o" \in DOMAIN Env["$tx"] /\ Env["$tx"]["$o"] = "j2"

\* C13: in the envelope of a successful build $territoriality is present iff
\* territoriality() came before and holds the last value given, $selfsign is
\* present iff selfsign() came before and is "true", and there is no key
\* other than $tx, $sigs, $territoriality and $selfsign
C13_EnvelopeFlags ==
    BuiltOk =>
        /\ Mirrors(Env, "$territoriality", "territoriality")
        /\ Mirrors(Env, "$selfsign", "selfsign")
        /\ "$selfsign" \in DOMAIN Env => Env["$selfsign"] = "true"
        /\ DOMAIN Env \subseteq {"$tx", "$sigs", "$territoriality", "$selfsign"}

C13_Witness ==
    /\ BuiltOk
    /\ DOMAIN Env = {"$tx", "$sigs", "$territoriality", "$selfsign"}
    /\ Env["$territoriality"] = "terry2"
    /\ Env["$selfsign"] = "true"

\* C14: before any build call get and get_json fail with 5000, "No
\* transaction data", whatever setters were called
C14_GetBeforeBuild ==
    (last.op \in Reads /\ ~ghost.buildCalled) =>
        /\ last.err = Some(TxBuildError(5000))
        /\ last.ret = None /\ last.json = None

C14_Witness ==
    /\ last.op = "get_json" /\ ~ghost.buildCalled
    /\ checked \subseteq Fields
    /\ "territoriality" \in DOMAIN tx_data
    /\ last.err = Some(TxBuildError(5000))

\* C15: get and get_json leave the builder as it was; of two consecutive
\* reads the second returns what the first returned, a get returning the
\* serialization of what a get_json returns
C15_ReadsIdempotent ==
    last.op \in Reads =>
        /\ BuilderKept
        /\ SaidOk(Reads) =>
              LET first == Unwrap(prev.said)
                  str(r) == IF r.op = "get" THEN r.ret
                            ELSE Some(env_to_string(Unwrap(r.json)))
              IN  /\ last.err = None
                  /\ str(last) = str(first)
                  /\ last.op = first.op => last.ret = first.ret /\ last.json = first.json

C15_Witness ==
    /\ last.op = "get" /\ last.err = None
    /\ SaidOk({"get_json"})
    /\ last.ret = Some(env_to_string(Unwrap(Unwrap(prev.said).json)))
    /\ DOMAIN Env["$sigs"] # {}

\* C16: a get right after a successful build returns the string that build
\* returned
C16_GetAfterBuild ==
    (last.op = "get" /\ SaidOk({"build"})) =>
        last.err = None /\ last.ret = Unwrap(prev.said).ret

C16_Witness ==
    /\ last.op = "get" /\ SaidOk({"build"})
    /\ last.ret # None
    /\ DOMAIN Env["$sigs"] # {}
    /\ "$selfsign" \in DOMAIN Env

PacketSetters == {"input", "output", "readonly"}
SetterCode(op) == CASE op = "input" -> 5001 [] op = "output" -> 5002 [] op = "readonly" -> 5003

\* C20: input, output and readonly handed a PacketData that has its JSON
\* succeed and store that JSON under their own key; handed one without JSON
\* they fail with 5001, 5002 and 5003 and every collected field stays
C20_PacketSetters ==
    last.op \in PacketSetters =>
        LET p == Unwrap(last.arg)
        IN  /\ p.json # None =>
                  /\ last.err = None
                  /\ packet_data = Insert(prev.packet_data, last.op, Unwrap(p.json))
            /\ p.json = None =>
                  /\ last.err = Some(TxBuildError(SetterCode(last.op)))
                  /\ packet_data = prev.packet_data
            /\ tx_data = prev.tx_data /\ packet = prev.packet
            /\ tx = prev.tx /\ sigs = prev.sigs

C20_Witness ==
    /\ last.op = "readonly"
    /\ Unwrap(last.arg).json = None
    /\ last.err = Some(TxBuildError(5003))
    /\ {"input", "readonly"} \subseteq Fields
    /\ packet_data["readonly"] = "j2"

Given == Unwrap(plast.given)
\* the JSON of the PacketData build returned
OkJson == Unwrap(Unwrap(packet_ok).json)

\* j has the shape of v: a String is the same JSON string, an Array a JSON
\* array of as many elements, each of the shape of v's in its place, an
\* Object a JSON object of the same keys, each value of the shape of v's
RECURSIVE Isomorphic(_, _)
Isomorphic(v, j) ==
    CASE v.kind = "String" -> j.json = "string" /\ j.val = v.val
      [] v.kind = "Array" ->
            /\ j.json = "array"
            /\ Len(j.val) = Len(v.val)
            /\ \A i \in 1..Len(v.val) : Isomorphic(v.val[i], j.val[i])
      [] v.kind = "Object" ->
            /\ j.json = "object"
            /\ DOMAIN j.val = DOMAIN v.val
            /\ \A k \in DOMAIN v.val : Isomorphic(v.val[k], j.val[k])

\* C17: build on a PacketBuilder made by new from a String or an Array fails
\* with BuildError 1000 and returns no PacketData
C17_NonObjectRootFails ==
    (plast.op = "build" /\ plast.from = "new" /\ Given.kind \in {"String", "Array"}) =>
        plast.err = Some(BuildError(1000)) /\ packet_ok = None

\* C18: build on a PacketBuilder made by new from an Object succeeds and
\* returns JSON of the shape of that Object at every nesting level
C18_BuildIsomorphic ==
    (plast.op = "build" /\ plast.from = "new" /\ Given.kind = "Object") =>
        /\ plast.err = None
        /\ packet_ok # None
        /\ Unwrap(packet_ok).json # None
        /\ Isomorphic(Given, OkJson)

C18_Witness ==
    /\ plast.op = "build" /\ plast.from = "new" /\ Given.kind = "Object"
    /\ \E k \in DOMAIN Given.val :
          /\ Given.val[k].kind = "Array"
          /\ Len(Given.val[k].val) = 2
          /\ Given.val[k].val[1] # Given.val[k].val[2]
          /\ OkJson.val[k].val[1] = JString(Given.val[k].val[1].val)

\* C19: build on a PacketBuilder made by new_json succeeds for every JSON
\* value, booleans included; get on the PacketData it returns is the value
\* supplied and get_string its serialization
C19_JsonPassesThrough ==
    plast.from = "new_json" =>
        /\ plast.op # "new_json" => plast.err = None
        /\ plast.op = "build" => packet_ok # None
        /\ plast.op = "get" => plast.json = plast.given
        /\ plast.op = "get_string" => plast.str = Some(Value_to_string(Given))

C19_Witness ==
    /\ plast.from = "new_json" /\ plast.op = "get_string"
    /\ Given.json = "object"
    /\ \E k \in DOMAIN Given.val : Given.val[k].json = "bool"
    /\ plast.str = Some(Value_to_string(Given))
    /\ Unwrap(packet_ok).json = plast.given

MissingCodes == { Some(TxBuildError(5006)), Some(TxBuildError(5007)),
                  Some(TxBuildError(5008)) }
JsonKey(field) ==
    CASE field = "contract" -> "$contract" [] field = "namespace" -> "$namespace"
      [] field = "input" -> "$i" [] field = "entry" -> "$entry"
      [] field = "output" -> "$o" [] field = "readonly" -> "$r"
\* the body that holds, under its key, the value last given for every
\* field that was given one
ExpectedTx ==
    LET given == { f \in PacketKeys : ghost.wrote[f] # None }
        field(k) == CHOOSE f \in given : JsonKey(f) = k
    IN  [k \in { JsonKey(f) : f \in given } |-> Unwrap(ghost.wrote[field(k)])]
\* $sigs is the signature map the call found, with the signature of the
\* last signee of every stream id of the registry put over it
ExpectedSigs ==
    /\ DOMAIN Env["$sigs"] = DOMAIN prev.sigs \cup LastIds
    /\ \A id \in LastIds :
          Env["$sigs"][id] = Signature(LastKeyFor(id), to_string(ExpectedTx, TxKeyOrder))
    /\ \A id \in DOMAIN prev.sigs \ LastIds : Env["$sigs"][id] = prev.sigs[id]

\* C24: get and get_json succeed iff a build call has returned success, and
\* so does a sign whose signer does not fail
C24_ValidAfterBuild ==
    /\ last.op \in Reads => (last.err = None <=> ghost.succeeded)
    /\ (last.op = "sign" /\ ~SignerFailed) => (last.err = None <=> ghost.succeeded)

C24_Witness ==
    /\ last.op = "sign" /\ ~SignerFailed
    /\ ghost.buildCalled /\ ~ghost.succeeded
    /\ packet # None
    /\ last.err = Some(TxBuildError(5005))

\* C25: a build that fails for a missing field leaves the builder as it
\* was; after one, a build with the three fields set and no signer failure
\* succeeds with the envelope the fields, the flags, the signature map and
\* the registry give
C25_RetryAfterMissing ==
    /\ (last.op = "build" /\ last.err \in MissingCodes) => BuilderKept
    /\ (last.op = "build" /\ ghost.missed /\ checked \subseteq Fields /\ ~SignerFailed) =>
          /\ last.err = None
          /\ Env["$tx"] = ExpectedTx
          /\ ExpectedSigs
          /\ Mirrors(Env, "$territoriality", "territoriality")
          /\ Mirrors(Env, "$selfsign", "selfsign")

C25_Witness ==
    /\ BuiltOk /\ ghost.missed
    /\ LastIds # {}
    /\ "$entry" \in DOMAIN Env["$tx"]

StringSetters == {"namespace", "contract", "entry", "territoriality"}

\* C26: namespace, contract, entry and territoriality succeed and store the
\* value under their own key over any value it had; a call with the value
\* the key already has changes nothing; every other field, the cached body,
\* the cached envelope and the signature map stay
C26_StringSetters ==
    last.op \in StringSetters =>
        LET v == Unwrap(ghost.wrote[last.op])
            now == IF last.op = "territoriality" THEN tx_data ELSE packet_data
            was == IF last.op = "territoriality" THEN prev.tx_data ELSE prev.packet_data
        IN  /\ last.err = None
            /\ DOMAIN now = DOMAIN was \cup {last.op}
            /\ now[last.op] = v
            /\ \A k \in DOMAIN was \ {last.op} : now[k] = was[k]
            /\ (last.op \in DOMAIN was /\ was[last.op] = v) => now = was
            /\ last.op = "territoriality" => packet_data = prev.packet_data
            /\ last.op # "territoriality" => tx_data = prev.tx_data
            /\ packet = prev.packet /\ tx = prev.tx /\ sigs = prev.sigs

C26_Witness ==
    /\ last.op = "entry"
    /\ "entry" \in DOMAIN prev.packet_data
    /\ prev.packet_data["entry"] = "e2"
    /\ packet_data = prev.packet_data
    /\ tx # None

\* C29: a successful build on a builder on which neither build nor sign was
\* called before yields $sigs whose keys are the stream ids of the registry
C29_SigsKeysAreStreamIds ==
    (BuiltOk /\ prev.fresh) => DOMAIN Env["$sigs"] = LastIds

C29_Witness ==
    /\ BuiltOk /\ prev.fresh
    /\ Len(last.signees) = 2
    /\ DOMAIN Env["$sigs"] = {"s1", "s2"}

\* C30: the $tx of a successful build, and the message handed to the signer,
\* are determined by the value last given for each field, whatever the
\* order of the setter calls and however often a field was overwritten
C30_PacketDeterministic ==
    BuiltOk =>
        /\ Env["$tx"] = ExpectedTx
        /\ last.calls > 0 => last.data = Some(to_string(ExpectedTx, TxKeyOrder))

C30_Witness ==
    /\ BuiltOk /\ last.calls > 0
    /\ ghost.wrote["contract"] = Some("c2")
    /\ ghost.wrote["output"] # None
    /\ last.data = Some(to_string(ExpectedTx, TxKeyOrder))

(* ------------------- claims on signees and onboarding ------------------ *)

OnboardedOk == onboarded.op = "onboard_tx" /\ onboarded.err = None
OnboardEnv == Unwrap(onboarded.json)
OnboardKey == Unwrap(onboarded.arg)

\* C21: when PEM extraction and signing succeed, onboard_tx returns the text
\* of an envelope with $contract "onboard", $namespace "default", $selfsign
\* "true", a $i whose one top-level key is the key's name, and a $sigs whose
\* one entry is under the key's name
C21_OnboardEnvelope ==
    (onboarded.op = "onboard_tx" /\ ~onboarded.pemFails /\ onboarded.failAt = 0) =>
        /\ onboarded.err = None
        /\ onboarded.ret = Some(env_to_string(OnboardEnv))
        /\ OnboardEnv["$tx"]["$contract"] = "onboard"
        /\ OnboardEnv["$tx"]["$namespace"] = "default"
        /\ OnboardEnv["$selfsign"] = "true"
        /\ OnboardEnv["$tx"]["$i"].json = "object"
        /\ DOMAIN OnboardEnv["$tx"]["$i"].val = { OnboardKey.name }
        /\ DOMAIN OnboardEnv["$sigs"] = { OnboardKey.name }

C21_Witness ==
    /\ OnboardedOk
    /\ OnboardKey = [name |-> "k1", kind |-> "Ec"]
    /\ DOMAIN OnboardEnv["$sigs"] = {"k1"}

\* C22: in the transaction onboard_tx returns, $i[key name] is an object
\* with exactly the entries type and publicKey, type being "secp256k1" for
\* an elliptic-curve key and "rsa" for an RSA key and publicKey the key's
\* public PEM; when PEM extraction fails onboard_tx returns KeyError 7002
\* and no transaction
C22_OnboardInput ==
    /\ OnboardedOk =>
          LET key_entry == OnboardEnv["$tx"]["$i"].val[OnboardKey.name]
          IN  /\ key_entry.json = "object"
              /\ DOMAIN key_entry.val = {"type", "publicKey"}
              /\ key_entry.val["type"] =
                    JString(IF OnboardKey.kind = "Ec" THEN "secp256k1" ELSE "rsa")
              /\ key_entry.val["publicKey"] = JString(PublicPem(OnboardKey))
    /\ (onboarded.op = "onboard_tx" /\ onboarded.pemFails) =>
          /\ onboarded.err = Some(KeyError(7002))
          /\ onboarded.ret = None /\ onboarded.json = None

C22_Witness ==
    /\ OnboardedOk
    /\ OnboardKey.kind = "Rsa"
    /\ OnboardEnv["$tx"]["$i"].val[OnboardKey.name].val["type"] = JString("rsa")

Generated == onboarded.op = "generate_onboard_tx"
RequestedKind == IF Unwrap(onboarded.key_type) = "RSA" THEN "Rsa" ELSE "Ec"

\* C23 as stated: key creation failing gives 6000 (RSA) or 6001 (elliptic
\* curve) and neither key nor transaction; in every other case the call
\* returns a key of the requested kind and the transaction of onboard_tx
C23_Original ==
    Generated =>
        IF onboarded.genFails
        THEN /\ onboarded.err = Some(TxGenerateError(
                    IF Unwrap(onboarded.key_type) = "RSA" THEN 6000 ELSE 6001))
             /\ onboarded.key = None /\ onboarded.ret = None
        ELSE /\ onboarded.err = None
             /\ onboarded.key # None
             /\ Unwrap(onboarded.key).kind = RequestedKind
             /\ onboarded.ret = onboard_tx(Unwrap(onboarded.key), FALSE, 0).ret

\* C23: key creation failing gives 6000 (RSA) or 6001 (elliptic curve) and
\* neither key nor transaction; when the key is created and onboard_tx fails
\* on it, that error is returned with neither key nor transaction; otherwise
\* the call returns a key of the requested kind and name with the
\* transaction onboard_tx produces for that key
C23_GenerateOnboard ==
    Generated =>
        LET made == [name |-> Unwrap(onboarded.key_name), kind |-> RequestedKind]
            same == onboard_tx(made, onboarded.pemFails, onboarded.failAt)
        IN  IF onboarded.genFails
            THEN /\ onboarded.err = Some(TxGenerateError(
                        IF Unwrap(onboarded.key_type) = "RSA" THEN 6000 ELSE 6001))
                 /\ onboarded.key = None /\ onboarded.ret = None
            ELSE IF onboarded.pemFails \/ onboarded.failAt # 0
            THEN /\ onboarded.err = same.err
                 /\ onboarded.err \in { Some(KeyError(c)) : c \in {7000, 7001, 7002} }
                 /\ onboarded.key = None /\ onboarded.ret = None
            ELSE /\ onboarded.err = None
                 /\ onboarded.key = Some(made)
                 /\ onboarded.ret # None
                 /\ onboarded.ret = onboard_tx(Unwrap(onboarded.key), FALSE, 0).ret

C23_Witness ==
    /\ Generated /\ onboarded.err = None
    /\ onboarded.key = Some([name |-> "k2", kind |-> "Ec"])
    /\ onboarded.ret # None

\* the Signee a logged call appends
Appended(e) ==
    [streamid |-> IF e.op = "add" THEN Unwrap(e.streamid) ELSE e.key.name,
     key |-> e.key]

\* C27: get returns one Signee per add or add_selfsign call made so far, in
\* call order, duplicates of a stream id included; what get returned stays
\* as it was, and the registry afterwards still begins with it
C27_SigneesGet ==
    snapshot # None =>
        LET s == Unwrap(snapshot)
        IN  /\ Len(s.keys) = s.at
            /\ \A i \in 1..s.at : s.keys[i] = Appended(log[i])
            /\ Len(registry) >= Len(s.keys)
            /\ SubSeq(registry, 1, Len(s.keys)) = s.keys

C27_Witness ==
    /\ snapshot # None
    /\ Unwrap(snapshot).at = 2
    /\ Unwrap(snapshot).keys[1].streamid = Unwrap(snapshot).keys[2].streamid
    /\ Unwrap(snapshot).keys[1].key # Unwrap(snapshot).keys[2].key

\* C28: a Signee appended by add_selfsign has the key's name as stream id,
\* for elliptic-curve and RSA keys alike, and the signature of that key is
\* stored in $sigs under the key's name
C28_SelfsignStreamId ==
    /\ \A i \in 1..Len(log) :
          log[i].op = "add_selfsign" =>
              /\ i <= Len(registry)
              /\ registry[i].streamid = log[i].key.name
              /\ registry[i].key = log[i].key
    /\ OnboardedOk =>
          /\ onboarded.signees = << [streamid |-> OnboardKey.name, key |-> OnboardKey] >>
          /\ OnboardKey.name \in DOMAIN OnboardEnv["$sigs"]
          /\ OnboardEnv["$sigs"][OnboardKey.name] =
                Signature(OnboardKey, to_string(OnboardEnv["$tx"], TxKeyOrder))

C28_Witness ==
    /\ Len(log) = 2
    /\ log[1].op = "add_selfsign" /\ log[1].key.kind = "Ec"
    /\ log[2].op = "add_selfsign" /\ log[2].key.kind = "Rsa"
    /\ registry[2].streamid = "k2"
    /\ OnboardedOk

(* --------------------- claims on the cached state --------------------- *)

\* C31: whenever an envelope is cached, a built body is cached too and the
\* envelope's $tx is that body's JSON, the message the next sign will sign
C31_EnvelopeShowsCachedBody ==
    tx # None =>
        /\ packet # None
        /\ Some(Env["$tx"]) = Unwrap(packet).json

\* C32: every entry of the $sigs of a cached envelope is a signature over
\* the serialization of that envelope's $tx
C32_SigsOverOwnTx ==
    tx # None =>
        \A id \in DOMAIN Env["$sigs"] :
            Env["$sigs"][id].over = to_string(Env["$tx"], TxKeyOrder)

\* C33: a sign that returns an error leaves the signature map and the
\* cached envelope as the call found them
C33_FailedSignKeepsState ==
    (last.op = "sign" /\ last.err # None) => (sigs = prev.sigs /\ tx = prev.tx)

AllSetters == StringSetters \cup PacketSetters \cup {"selfsign"}
\* an envelope without its $sigs
Unsigned(env) == [k \in DOMAIN env \ {"$sigs"} |-> env[k]]

C35_MissingPriority ==
    last.op = "build" =>
        /\ last.err = Some(TxBuildError(5006)) <=> "contract" \notin Fields
        /\ last.err = Some(TxBuildError(5007)) <=>
              ("contract" \in Fields /\ "namespace" \notin Fields)
        /\ last.err = Some(TxBuildError(5008)) <=>
              ({"contract", "namespace"} \subseteq Fields /\ "input" \notin Fields)
        /\ last.err \in MissingCodes =>
              /\ last.calls = 0 /\ last.data = None
              /\ sigs = prev.sigs

C35_Witness ==
    /\ last.op = "build"
    /\ Fields = {"input"}
    /\ Len(last.signees) = 2
    /\ last.err = Some(TxBuildError(5006))
    /\ last.calls = 0

\* C39: the packet-level field map holds only namespace, contract, entry,
\* input, output and readonly, so the fields build hands to
\* TransactionBody::add are among entry, output and readonly
C39_PacketKeysClosed ==
    /\ DOMAIN packet_data \subseteq PacketKeys
    /\ DOMAIN packet_data \ checked \subseteq {"entry", "output", "readonly"}
    /\ DOMAIN prev.packet_data \subseteq PacketKeys

C39_Witness ==
    /\ BuiltOk
    /\ Fields = {"namespace", "contract", "input", "entry", "output"}
    /\ Unwrap(packet).entry # None /\ Unwrap(packet).output # None
    /\ Unwrap(packet).readonly = None

(* ----------------------- claims on PacketData ------------------------- *)

\* the PacketData the last successful build returned
Ok == Unwrap(packet_ok)

\* C36: a PacketData returned by a successful build has its JSON and its
\* string, the string being the serialization of the JSON: get and
\* get_string succeed on it, and input, output and readonly accept it
C36_BuiltHasBothForms ==
    /\ packet_ok # None =>
          /\ PacketData_get(Ok).err = None
          /\ PacketData_get_string(Ok).err = None
          /\ PacketData_get_string(Ok).str =
                Some(Value_to_string(Unwrap(PacketData_get(Ok).json)))
          /\ \A op \in PacketSetters :
                set_packet(EmptyMap, op, Ok, SetterCode(op)).err = None
    /\ plast.op \in {"get", "get_string"} => plast.err = None
    /\ (plast.op = "build" /\ plast.err = None) => packet_ok # None

C36_Witness ==
    /\ plast.op = "get_string" /\ plast.from = "new" /\ plast.err = None
    /\ Given.kind = "Object" /\ DOMAIN Given.val # {}
    /\ plast.str = Some(Value_to_string(OkJson))
    /\ set_packet(EmptyMap, "input", Ok, 5001).pd = ("input" :> OkJson)

\* C37: a build on a PacketBuilder that has returned a PacketData before
\* succeeds and returns a PacketData with the same get and get_string; the
\* builder's data is marked as JSON from the first build on
C37_BuildIdempotent ==
    /\ (plast.op = "build" /\ plast.before # None) =>
          /\ plast.err = None
          /\ PacketData_get(Ok) = PacketData_get(Unwrap(plast.before))
          /\ PacketData_get_string(Ok) = PacketData_get_string(Unwrap(plast.before))
    /\ packet_ok # None => PacketData_is_json(packet_builder.data)

C37_Witness ==
    /\ plast.op = "build" /\ plast.before # None /\ plast.from = "new"
    /\ plast.err = None
    /\ Given.kind = "Object" /\ DOMAIN Given.val # {}
    /\ Ok = Unwrap(plast.before)

\* the nesting depth of a PacketValue
RECURSIVE Depth(_)
Depth(v) ==
    LET Max(S) == IF S = {} THEN 0 ELSE CHOOSE n \in S : \A m \in S : m <= n
    IN  CASE v.kind = "String" -> 1
          [] v.kind = "Array" -> 1 + Max({ Depth(v.val[i]) : i \in 1..Len(v.val) })
          [] v.kind = "Object" -> 1 + Max({ Depth(v.val[k]) : k \in DOMAIN v.val })

ConversionErrors == { Some(JsonError(2000)), Some(JsonError(2001)) }

\* C38: the conversion of an Object to JSON never fails: to_json returns no
\* error for it and build on the PacketBuilder made from it succeeds,
\* neither 2000 nor 2001 being returned
C38_NoConversionError ==
    plast.from = "new" =>
        /\ plast.err \notin ConversionErrors
        /\ Given.kind = "Object" =>
              /\ to_json(Given).err = None
              /\ plast.op = "build" => plast.err = None

C38_Witness ==
    /\ plast.from = "new" /\ plast.op = "build" /\ plast.err = None
    /\ Given.kind = "Object"
    /\ Depth(Given) = MaxNodes
    /\ \E k \in DOMAIN Given.val : Given.val[k].kind = "Array"

(* --------------------- claims on TransactionBody ---------------------- *)

\* C40: get on a TransactionBody that has not been built fails with
\* TxBodyError 4000, "No transaction body"; after build it returns the JSON
\* that build produced
C40_BodyGet ==
    blast.op = "get" =>
        IF blast.built = None
        THEN blast.err = Some(TxBodyError(4000)) /\ blast.json = None
        ELSE blast.err = None /\ blast.json = blast.built

====
